---------------------------- MODULE Spec2Model ----------------------------
(***************************************************************************)
(* Model of domain_check.py: the command line (__main__), the word source, *)
(* the lookup dispatcher (check_domain / check_whois) and the run          *)
(* orchestrator (run).                                                     *)
(*                                                                         *)
(* Python strings and byte strings are sequences of one-character strings, *)
(* so that lower(), strip(), split(), startswith(), "in" and f-strings are *)
(* computed on the characters, as the interpreter computes them.           *)
(***************************************************************************)
EXTENDS Integers, Sequences, FiniteSets, TLC

(* ------------------------------ bounds --------------------------------- *)

\* Longest command line (sys.argv[1:]) explored.
MaxArgs == 3

\* Largest number of (word, tld) pairs of a run explored.
MaxPairs == 5

(* ------------------------- string constants ---------------------------- *)

\* A byte that is not valid UTF-8; bytes.decode(errors="ignore") drops it.
BadByte == "<ff>"

S_com ==
  <<"c","o","m">>
S_net ==
  <<"n","e","t">>
S_org ==
  <<"o","r","g">>
S_ai ==
  <<"a","i">>
S_app ==
  <<"a","p","p">>
S_dev ==
  <<"d","e","v">>
S_tech ==
  <<"t","e","c","h">>
S_io ==
  <<"i","o">>
S_co ==
  <<"c","o">>
S_me ==
  <<"m","e">>
U_com ==
  <<"h","t","t","p","s",":","/","/","r","d","a","p",".","v","e","r","i","s","i","g","n",".","c","o","m","/","c","o","m","/","v","1","/","d","o","m","a","i","n","/">>
U_net ==
  <<"h","t","t","p","s",":","/","/","r","d","a","p",".","v","e","r","i","s","i","g","n",".","c","o","m","/","n","e","t","/","v","1","/","d","o","m","a","i","n","/">>
U_org ==
  <<"h","t","t","p","s",":","/","/","r","d","a","p",".","p","u","b","l","i","c","i","n","t","e","r","e","s","t","r","e","g","i","s","t","r","y",".","o","r","g","/","r","d","a","p","/","d","o","m","a","i","n","/">>
U_ai ==
  <<"h","t","t","p","s",":","/","/","r","d","a","p",".","i","d","e","n","t","i","t","y","d","i","g","i","t","a","l",".","s","e","r","v","i","c","e","s","/","r","d","a","p","/","d","o","m","a","i","n","/">>
U_app ==
  <<"h","t","t","p","s",":","/","/","p","u","b","a","p","i",".","r","e","g","i","s","t","r","y",".","g","o","o","g","l","e","/","r","d","a","p","/","d","o","m","a","i","n","/">>
U_dev ==
  <<"h","t","t","p","s",":","/","/","p","u","b","a","p","i",".","r","e","g","i","s","t","r","y",".","g","o","o","g","l","e","/","r","d","a","p","/","d","o","m","a","i","n","/">>
U_tech ==
  <<"h","t","t","p","s",":","/","/","r","d","a","p",".","c","e","n","t","r","a","l","n","i","c",".","c","o","m","/","t","e","c","h","/","d","o","m","a","i","n","/">>
H_io ==
  <<"w","h","o","i","s",".","n","i","c",".","i","o">>
H_co ==
  <<"w","h","o","i","s",".","n","i","c",".","c","o">>
H_me ==
  <<"w","h","o","i","s",".","n","i","c",".","m","e">>
WORDS_FILE ==
  <<"d","o","m","a","i","n","_","w","o","r","d","s",".","j","s","o","n">>
S_available ==
  <<"a","v","a","i","l","a","b","l","e">>
S_taken ==
  <<"t","a","k","e","n">>
S_unknown ==
  <<"u","n","k","n","o","w","n">>
S_timeout ==
  <<"t","i","m","e","o","u","t">>
S_error ==
  <<"e","r","r","o","r">>
S_no_server ==
  <<"n","o","-","s","e","r","v","e","r">>
S_unknown_open ==
  <<"u","n","k","n","o","w","n","(">>
S_close ==
  <<")">>
S_dot ==
  <<".">>
S_crlf ==
  <<"\r","\n">>
P_no_match ==
  <<"n","o"," ","m","a","t","c","h">>
P_not_found ==
  <<"n","o","t"," ","f","o","u","n","d">>
P_no_data_found ==
  <<"n","o"," ","d","a","t","a"," ","f","o","u","n","d">>
P_domain_name ==
  <<"d","o","m","a","i","n"," ","n","a","m","e",":">>
P_registrar ==
  <<"r","e","g","i","s","t","r","a","r",":">>
P_registered ==
  <<"r","e","g","i","s","t","e","r","e","d">>
F_words ==
  <<"-","-","w","o","r","d","s","=">>
F_tlds ==
  <<"-","-","t","l","d","s","=">>
F_dashes ==
  <<"-","-">>
S_domain ==
  <<"d","o","m","a","i","n">>
S_status ==
  <<"s","t","a","t","u","s">>
A_words_txt ==
  <<"w","o","r","d","s",".","t","x","t">>
A_tlds_bare ==
  <<"-","-","t","l","d","s">>
A_tld_list ==
  <<"c","o","m",",","a","i",",","a","p","p",",","i","o">>
A_tlds_com ==
  <<"-","-","t","l","d","s","=","c","o","m">>
A_tlds_zz_com_io_com ==
  <<"-","-","t","l","d","s","=","z","z",",","c","o","m",",","i","o",",","c","o","m">>
A_words_my ==
  <<"-","-","w","o","r","d","s","=","m","y",".","j","s","o","n">>
N_my_json ==
  <<"m","y",".","j","s","o","n">>
W_neo ==
  <<"n","e","o">>
W_ware ==
  <<"w","a","r","e">>
W_Neoware ==
  <<"N","e","o","W","a","r","e">>
W_a ==
  <<"a">>
W_A ==
  <<"A">>
W_b ==
  <<"b">>
T_words_txt ==
  <<" ","A","b"," ","\n","\n","a","b","\n","c","\n">>
T_blank_txt ==
  <<" ","\n","\n">>
B_no_match ==
  <<"N","o"," ","m","a","t","c","h"," ","f","o","r"," ","\"","X","\"">>
B_taken ==
  <<"D","o","m","a","i","n"," ","N","a","m","e",":"," ","x","\n","R","e","g","i","s","t","r","a","r",":"," ","y">>
B_both ==
  <<"N","O","T"," ","F","O","U","N","D"," ","(","r","e","g","i","s","t","e","r","e","d"," ","n","a","m","e","s"," ","o","n","l","y",")">>
B_quota ==
  <<"q","u","o","t","a"," ","e","x","c","e","e","d","e","d">>
B_no_data ==
  <<"N","o"," ","D","a","t","a"," ","F","o","u","n","d">>
B_registered ==
  <<"S","t","a","t","u","s",":"," ","R","E","G","I","S","T","E","R","E","D">>
B_bad_byte ==
  <<"n","o"," ","m","a",BadByte,"t","c","h">>

(* ----------------------- Python string operations ---------------------- *)

UpperCase ==
  <<"A","B","C","D","E","F","G","H","I","J","K","L","M",
    "N","O","P","Q","R","S","T","U","V","W","X","Y","Z">>

LowerCase ==
  <<"a","b","c","d","e","f","g","h","i","j","k","l","m",
    "n","o","p","q","r","s","t","u","v","w","x","y","z">>

Digits ==
  <<"0","1","2","3","4","5","6","7","8","9">>

Whitespace ==
  {" ", "\t", "\n", "\r"}

\* None, and every other falsy string value: the code only tests truthiness.
None ==
  <<>>

LowerChar(c) ==
  IF \E i \in 1..Len(UpperCase) : UpperCase[i] = c
  THEN LowerCase[CHOOSE i \in 1..Len(UpperCase) : UpperCase[i] = c]
  ELSE c

\* str.lower()
Lower(s) ==
  [i \in 1..Len(s) |-> LowerChar(s[i])]

RECURSIVE LStrip(_)
LStrip(s) ==
  IF s # <<>> /\ Head(s) \in Whitespace THEN LStrip(Tail(s)) ELSE s

RECURSIVE RStrip(_)
RStrip(s) ==
  IF s # <<>> /\ s[Len(s)] \in Whitespace
  THEN RStrip(SubSeq(s, 1, Len(s) - 1))
  ELSE s

\* str.strip()
Strip(s) ==
  RStrip(LStrip(s))

\* str.startswith(p)
StartsWith(s, p) ==
  Len(s) >= Len(p) /\ SubSeq(s, 1, Len(p)) = p

\* phrase in text
Contains(text, phrase) ==
  \E i \in 1..(Len(text) - Len(phrase) + 1) :
    SubSeq(text, i, i + Len(phrase) - 1) = phrase

\* str.split(sep) for a one-character separator
RECURSIVE Split(_, _)
Split(s, sep) ==
  IF \E i \in 1..Len(s) : s[i] = sep
  THEN LET i == CHOOSE k \in 1..Len(s) :
                  s[k] = sep /\ \A j \in 1..(k - 1) : s[j] # sep
       IN  <<SubSeq(s, 1, i - 1)>> \o Split(SubSeq(s, i + 1, Len(s)), sep)
  ELSE <<s>>

\* arg.split("=", 1)[1], for an arg that holds an "="
AfterEquals(arg) ==
  LET i == CHOOSE k \in 1..Len(arg) :
             arg[k] = "=" /\ \A j \in 1..(k - 1) : arg[j] # "="
  IN  SubSeq(arg, i + 1, Len(arg))

\* str(n) of a natural number, as an f-string formats a status code
RECURSIVE IntToStr(_)
IntToStr(n) ==
  IF n < 10 THEN <<Digits[n + 1]>>
  ELSE IntToStr(n \div 10) \o <<Digits[(n % 10) + 1]>>

\* bytes.decode(errors="ignore")
Decode(bytes) ==
  SelectSeq(bytes, LAMBDA b : b # BadByte)

\* list(dict.fromkeys(seq)): first occurrences, in order
RECURSIVE Dedup(_)
Dedup(s) ==
  IF s = <<>> THEN <<>>
  ELSE LET r == Dedup(SubSeq(s, 1, Len(s) - 1))
           x == s[Len(s)]
       IN  IF \E i \in 1..Len(r) : r[i] = x THEN r ELSE Append(r, x)

(* ---------------------------- configuration ---------------------------- *)

TLDS ==
  <<S_com, S_ai, S_app, S_io, S_co>>

RDAP_SERVERS ==
  (S_com :> U_com) @@ (S_net :> U_net) @@ (S_org :> U_org) @@
  (S_ai :> U_ai) @@ (S_app :> U_app) @@ (S_dev :> U_dev) @@
  (S_tech :> U_tech)

WhoisPort == 43

WHOIS_SERVERS ==
  (S_io :> <<H_io, WhoisPort>>) @@ (S_co :> <<H_co, WhoisPort>>) @@
  (S_me :> <<H_me, WhoisPort>>)

\* RDAP_SERVERS.get(tld)
RdapGet(tld) ==
  IF tld \in DOMAIN RDAP_SERVERS THEN RDAP_SERVERS[tld] ELSE None

\* WHOIS_SERVERS.get(tld)
WhoisGet(tld) ==
  IF tld \in DOMAIN WHOIS_SERVERS THEN WHOIS_SERVERS[tld] ELSE None

(* ------------------------------ word source ---------------------------- *)

\* data.get(key, [])
Field(data, key) ==
  IF key \in DOMAIN data THEN data[key] ELSE <<>>

\* load_words_file on a parsed document: (words, prefixes, roots)
load_words_file(data) ==
  <<Field(data, "words"), Field(data, "prefixes"), Field(data, "roots")>>

RECURSIVE Concat(_)
Concat(lists) ==
  IF lists = <<>> THEN <<>> ELSE Head(lists) \o Concat(Tail(lists))

\* [f"{p}{r}" for p, r in product(prefixes, roots)]
generate_combinations(prefixes, roots) ==
  Concat([i \in 1..Len(prefixes) |->
            [j \in 1..Len(roots) |-> prefixes[i] \o roots[j]]])

\* [line.strip().lower() for line in f if line.strip()]
FileWords(content) ==
  LET lines == Split(content, "\n")
      kept  == SelectSeq(lines, LAMBDA l : Strip(l) # <<>>)
  IN  [i \in 1..Len(kept) |-> Lower(Strip(kept[i]))]

\* list(dict.fromkeys(w.lower() for w in words))
Normalize(ws) ==
  Dedup([i \in 1..Len(ws) |-> Lower(ws[i])])

(* --------------------------- command line ------------------------------ *)

\* The "--words=" loop of __main__: the last such argument wins.
RECURSIVE WordsFileOf(_, _)
WordsFileOf(args, words_file) ==
  IF args = <<>> THEN words_file
  ELSE WordsFileOf(Tail(args),
                   IF StartsWith(Head(args), F_words)
                   THEN AfterEquals(Head(args))
                   ELSE words_file)

\* One pass of the second loop of __main__ over one argument.
ParseArg(arg, acc) ==
  IF StartsWith(arg, F_tlds)
  THEN [acc EXCEPT !.tlds = Split(AfterEquals(arg), ",")]
  ELSE IF StartsWith(arg, F_words) THEN acc
  ELSE IF ~StartsWith(arg, F_dashes) THEN [acc EXCEPT !.file_path = arg]
  ELSE acc

\* The second loop of __main__: tlds and file_path.
RECURSIVE ParseArgs(_, _)
ParseArgs(args, acc) ==
  IF args = <<>> THEN acc
  ELSE ParseArgs(Tail(args), ParseArg(Head(args), acc))

ParsedArgs(args) ==
  ParseArgs(args, [tlds |-> TLDS, file_path |-> None])

(* ------------------------- the network's replies ----------------------- *)

Reply(kind, code, exc, body) ==
  [kind |-> kind, code |-> code, exc |-> exc, body |-> body]

NoReply ==
  Reply("none", 0, "", <<>>)

\* requests.exceptions.Timeout and its subclasses
Timeouts ==
  {"ConnectTimeout", "ReadTimeout"}

\* requests.exceptions.RequestException and its subclasses
RequestExceptions ==
  Timeouts \cup {"ConnectionError", "TooManyRedirects"}

\* What session.get(url, timeout=8) can do: answer with a status code, or
\* raise.  UnicodeDecodeError is what requests raises from a redirect whose
\* Location header is not UTF-8; it is no RequestException.
StatusCodes ==
  {200, 404, 503}

RdapExceptions ==
  {"ReadTimeout", "ConnectionError", "UnicodeDecodeError"}

RdapReplies ==
  {Reply("status", c, "", <<>>) : c \in StatusCodes} \cup
  {Reply("exc", 0, e, <<>>) : e \in RdapExceptions}

\* What the WHOIS exchange can do: the peer sends a body and closes, or
\* connect / sendall / recv raises.
WhoisBodies ==
  {<<>>, B_no_match, B_taken, B_both, B_quota, B_no_data, B_registered,
   B_bad_byte}

WhoisExceptions ==
  {"TimeoutError", "ConnectionRefusedError"}

WhoisReplies ==
  {Reply("body", 0, "", b) : b \in WhoisBodies} \cup
  {Reply("exc", 0, e, <<>>) : e \in WhoisExceptions}

(* ----------------------------- core logic ------------------------------ *)

\* The result of one call: the value returned, or the exception that
\* escaped, with the network operations the call performed.
Result(status, raised, ops, reply) ==
  [status |-> status, raised |-> raised, ops |-> ops, reply |-> reply]

\* Mutant of WhoisVerdict: the taken-phrases are looked for first.
WhoisVerdictTakenFirst(text) ==
  IF Contains(text, P_domain_name) \/ Contains(text, P_registrar)
     \/ Contains(text, P_registered)
  THEN S_taken
  ELSE IF Contains(text, P_no_match) \/ Contains(text, P_not_found)
          \/ Contains(text, P_no_data_found)
  THEN S_available
  ELSE S_unknown

\* check_whois, lines 77-81: the verdict of a decoded, lowercased body.
WhoisVerdict(text) ==
  IF Contains(text, P_no_match) \/ Contains(text, P_not_found)
     \/ Contains(text, P_no_data_found)
  THEN S_available
  ELSE IF Contains(text, P_domain_name) \/ Contains(text, P_registrar)
          \/ Contains(text, P_registered)
  THEN S_taken
  ELSE S_unknown

check_whois(domain, host, port, reply) ==
  LET op == [proto |-> "whois", target |-> host, port |-> port,
             sent |-> domain \o S_crlf]
  IN  IF reply.kind = "exc"
      THEN \* except Exception
           Result(S_error, "", <<op>>, reply)
      ELSE Result(WhoisVerdict(Lower(Decode(reply.body))), "", <<op>>, reply)

\* Mutant of RdapVerdict: the RequestException clause comes first, so a
\* timeout is reported as an error.
RdapVerdictErrorFirst(reply) ==
  IF reply.kind = "status"
  THEN IF reply.code = 404 THEN [status |-> S_available, raised |-> ""]
       ELSE IF reply.code = 200 THEN [status |-> S_taken, raised |-> ""]
       ELSE [status |-> S_unknown_open \o IntToStr(reply.code) \o S_close,
             raised |-> ""]
  ELSE IF reply.exc \in RequestExceptions
  THEN [status |-> S_error, raised |-> ""]
  ELSE [status |-> None, raised |-> reply.exc]

\* check_domain, lines 98-109: the value returned for a reply of
\* session.get, or the exception that is not caught.
RdapVerdict(reply) ==
  IF reply.kind = "status"
  THEN IF reply.code = 404 THEN [status |-> S_available, raised |-> ""]
       ELSE IF reply.code = 200 THEN [status |-> S_taken, raised |-> ""]
       ELSE [status |-> S_unknown_open \o IntToStr(reply.code) \o S_close,
             raised |-> ""]
  ELSE IF reply.exc \in Timeouts THEN [status |-> S_timeout, raised |-> ""]
  ELSE IF reply.exc \in RequestExceptions
  THEN [status |-> S_error, raised |-> ""]
  ELSE [status |-> None, raised |-> reply.exc]

\* Mutant of check_domain: a TLD with no binding is asked of a default
\* WHOIS server.
check_domain_default_whois(word, tld, net) ==
  LET domain    == word \o S_dot \o tld
      rdap_base == RdapGet(tld)
      whois     == IF tld \in DOMAIN WHOIS_SERVERS THEN WHOIS_SERVERS[tld]
                   ELSE <<H_io, WhoisPort>>
  IN  IF rdap_base # None
      THEN LET op == [proto |-> "rdap", target |-> rdap_base \o domain,
                      port |-> 0, sent |-> <<>>]
               v  == RdapVerdict(net.rdap)
           IN  Result(v.status, v.raised, <<op>>, net.rdap)
      ELSE check_whois(domain, whois[1], whois[2], net.whois)

\* Mutant of check_domain: a timed-out structured request is sent again.
check_domain_retry(word, tld, net) ==
  LET domain    == word \o S_dot \o tld
      rdap_base == RdapGet(tld)
      whois     == WhoisGet(tld)
  IN  IF rdap_base # None
      THEN LET op == [proto |-> "rdap", target |-> rdap_base \o domain,
                      port |-> 0, sent |-> <<>>]
               v  == RdapVerdict(net.rdap)
           IN  Result(v.status, v.raised,
                      IF v.status = S_timeout THEN <<op, op>> ELSE <<op>>,
                      net.rdap)
      ELSE IF whois # None
      THEN check_whois(domain, whois[1], whois[2], net.whois)
      ELSE Result(S_no_server, "", <<>>, NoReply)

check_domain(word, tld, net) ==
  LET domain    == word \o S_dot \o tld
      rdap_base == RdapGet(tld)
      whois     == WhoisGet(tld)
  IN  IF rdap_base # None
      THEN LET op == [proto |-> "rdap", target |-> rdap_base \o domain,
                      port |-> 0, sent |-> <<>>]
               v  == RdapVerdict(net.rdap)
           IN  Result(v.status, v.raised, <<op>>, net.rdap)
      ELSE IF whois # None
      THEN check_whois(domain, whois[1], whois[2], net.whois)
      ELSE Result(S_no_server, "", <<>>, NoReply)

\* Mutant of Bucket: the elif branch is lost, a taken domain is filed as
\* unknown.
BucketNoTaken(status) ==
  IF status = S_available THEN "available" ELSE "unknown"

\* run, lines 140-148: the bucket a status is appended to.
Bucket(status) ==
  IF status = S_available THEN "available"
  ELSE IF status = S_taken THEN "taken"
  ELSE "unknown"

Rows(domains, label) ==
  [i \in 1..Len(domains) |-> <<domains[i], label>>]

\* Mutant of ShouldSave: unknown results alone do not save the file.
ShouldSaveAvailableOnly(save_csv, available_, unknown_) ==
  save_csv /\ available_ # <<>>

\* run, line 171: whether the CSV file is written.
ShouldSave(save_csv, available_, unknown_) ==
  save_csv /\ (available_ # <<>> \/ unknown_ # <<>>)

\* run, lines 176-182: the rows written.
CsvRows(available_, taken_, unknown_) ==
  <<<<S_domain, S_status>>>> \o Rows(available_, S_available)
    \o Rows(taken_, S_taken) \o Rows(unknown_, S_unknown)

(* ------------------------------- state --------------------------------- *)

VARIABLES
  argv,        \* sys.argv[1:]
  jsonFiles,   \* the structured word files that exist: path -> document
  textFiles,   \* the plain word lists that exist: path -> content
  pc,          \* where the program is
  exitCode,    \* the process's exit status, -1 while it runs
  notice,      \* the message printed before sys.exit(1)
  words,       \* __main__'s words, then run's
  tlds,        \* __main__'s tlds, then run's
  wi, ti,      \* run's position in "for word in words: for tld in tlds"
  available, taken, unknown, checked,   \* run's tally
  status,      \* run's status of the last pair
  call,        \* the last call of check_domain, and what it did
  netOps,      \* network operations performed so far
  results,     \* the (domain, status) of every pair checked, in order
  csvWritten,  \* whether domain_results_<ts>.csv was written
  csvRows      \* its rows

vars ==
  <<argv, jsonFiles, textFiles, pc, exitCode, notice, words, tlds, wi, ti,
    available, taken, unknown, checked, status, call, netOps, results,
    csvWritten, csvRows>>

(* ------------------------------- inputs -------------------------------- *)

Args ==
  {A_words_txt, A_tlds_bare, A_tld_list, A_tlds_com, A_tlds_zz_com_io_com,
   A_words_my}

DefaultDoc ==
  [words |-> <<W_Neoware>>, prefixes |-> <<W_neo>>, roots |-> <<W_ware>>]

MyDoc ==
  [words |-> <<W_a, W_A, W_b>>]

\* The file systems explored: every word source present, one missing, or
\* the plain list holding blank lines only.
FileSystems ==
  {[json |-> (WORDS_FILE :> DefaultDoc) @@ (N_my_json :> MyDoc),
    text |-> (A_words_txt :> T_words_txt)],
   [json |-> (N_my_json :> MyDoc),
    text |-> (A_words_txt :> T_words_txt)],
   [json |-> (WORDS_FILE :> DefaultDoc),
    text |-> (A_words_txt :> T_words_txt)],
   [json |-> (WORDS_FILE :> DefaultDoc) @@ (N_my_json :> MyDoc),
    text |-> <<>>],
   [json |-> (WORDS_FILE :> DefaultDoc) @@ (N_my_json :> MyDoc),
    text |-> (A_words_txt :> T_blank_txt)]}

\* The command lines explored: up to MaxArgs arguments, none given twice.
CommandLines ==
  {a \in UNION {[1..n -> Args] : n \in 0..MaxArgs} :
     \A i, j \in 1..Len(a) : a[i] = a[j] => i = j}

\* The number of pairs __main__ hands to run for a command line and a file
\* system (0 when it exits before).
PlannedPairs(args, jf, tf) ==
  LET wf == WordsFileOf(args, WORDS_FILE)
      p  == ParsedArgs(args)
  IN  IF wf \notin DOMAIN jf THEN 0
      ELSE IF p.file_path # None /\ p.file_path \notin DOMAIN tf THEN 0
      ELSE LET loaded == load_words_file(jf[wf])
               ws == IF p.file_path # None THEN FileWords(tf[p.file_path])
                     ELSE loaded[1]
                          \o generate_combinations(loaded[2], loaded[3])
           IN  Len(Normalize(ws)) * Len(p.tlds)

NoCall ==
  [word |-> None, tld |-> None, status |-> None, raised |-> "",
   ops |-> <<>>, reply |-> NoReply]

Init ==
  /\ argv \in CommandLines
  /\ \E fs \in FileSystems : jsonFiles = fs.json /\ textFiles = fs.text
  /\ PlannedPairs(argv, jsonFiles, textFiles) <= MaxPairs
  /\ pc = "start"
  /\ exitCode = -1
  /\ notice = None
  /\ words = <<>>
  /\ tlds = <<>>
  /\ wi = 0
  /\ ti = 0
  /\ available = <<>>
  /\ taken = <<>>
  /\ unknown = <<>>
  /\ checked = 0
  /\ status = None
  /\ call = NoCall
  /\ netOps = 0
  /\ results = <<>>
  /\ csvWritten = FALSE
  /\ csvRows = <<>>

(* ------------------------------- actions ------------------------------- *)

\* __main__, lines 189-204, load_words_file succeeding.
LoadWords ==
  /\ pc = "start"
  /\ LET words_file == WordsFileOf(argv, WORDS_FILE)
     IN  /\ words_file \in DOMAIN jsonFiles
         /\ LET loaded == load_words_file(jsonFiles[words_file])
            IN  words' = loaded[1]
                           \o generate_combinations(loaded[2], loaded[3])
  /\ pc' = "args"
  /\ UNCHANGED <<argv, jsonFiles, textFiles, exitCode, notice, tlds, wi, ti,
                 available, taken, unknown, checked, status, call, netOps,
                 results, csvWritten, csvRows>>

\* __main__, lines 194-199, FileNotFoundError: message and sys.exit(1).
WordsFileNotFound ==
  /\ pc = "start"
  /\ LET words_file == WordsFileOf(argv, WORDS_FILE)
     IN  /\ words_file \notin DOMAIN jsonFiles
         /\ notice' = <<"Words file not found: ", words_file>>
  /\ pc' = "exit"
  /\ exitCode' = 1
  /\ UNCHANGED <<argv, jsonFiles, textFiles, words, tlds, wi, ti, available,
                 taken, unknown, checked, status, call, netOps, results,
                 csvWritten, csvRows>>

\* __main__, lines 206-231: the arguments, the optional plain list, the
\* deduplication, and the call of run.
ParseAndNormalize ==
  /\ pc = "args"
  /\ LET p == ParsedArgs(argv)
     IN  /\ p.file_path # None => p.file_path \in DOMAIN textFiles
         /\ tlds' = p.tlds
         /\ words' = Normalize(IF p.file_path # None
                               THEN FileWords(textFiles[p.file_path])
                               ELSE words)
  /\ pc' = "run"
  /\ UNCHANGED <<argv, jsonFiles, textFiles, exitCode, notice, wi, ti,
                 available, taken, unknown, checked, status, call, netOps,
                 results, csvWritten, csvRows>>

\* Mutant of PlainFileNotFound: the missing list is skipped and the run goes
\* on with the structured file's words.
PlainFileNotFoundIgnored ==
  /\ pc = "args"
  /\ LET p == ParsedArgs(argv)
     IN  /\ p.file_path # None
         /\ p.file_path \notin DOMAIN textFiles
         /\ tlds' = p.tlds
         /\ notice' = <<"File not found: ", p.file_path>>
  /\ words' = Normalize(words)
  /\ pc' = "run"
  /\ UNCHANGED <<argv, jsonFiles, textFiles, exitCode, wi, ti, available,
                 taken, unknown, checked, status, call, netOps, results,
                 csvWritten, csvRows>>

\* __main__, lines 218-226, FileNotFoundError: message and sys.exit(1).
PlainFileNotFound ==
  /\ pc = "args"
  /\ LET p == ParsedArgs(argv)
     IN  /\ p.file_path # None
         /\ p.file_path \notin DOMAIN textFiles
         /\ tlds' = p.tlds
         /\ notice' = <<"File not found: ", p.file_path>>
  /\ pc' = "exit"
  /\ exitCode' = 1
  /\ UNCHANGED <<argv, jsonFiles, textFiles, words, wi, ti, available,
                 taken, unknown, checked, status, call, netOps, results,
                 csvWritten, csvRows>>

\* run, lines 119-132: the empty tally, and the loops at their first pair.
RunStart ==
  /\ pc = "run"
  /\ available' = <<>>
  /\ taken' = <<>>
  /\ unknown' = <<>>
  /\ checked' = 0
  /\ wi' = 1
  /\ ti' = 1
  /\ pc' = "loop"
  /\ UNCHANGED <<argv, jsonFiles, textFiles, exitCode, notice, words, tlds,
                 status, call, netOps, results, csvWritten, csvRows>>

\* Whether "for word in words: for tld in tlds" has a pair left.
HasNext ==
  wi <= Len(words) /\ ti <= Len(tlds)

\* The environment's replies to whichever request the call makes.
\* A call contacts at most one server, so the reply of the other protocol is
\* fixed while one varies.
Nets ==
  [rdap : RdapReplies, whois : {Reply("body", 0, "", <<>>)}] \cup
  [rdap : {Reply("status", 200, "", <<>>)}, whois : WhoisReplies]

CallOf(word, tld, r) ==
  [word |-> word, tld |-> tld, status |-> r.status, raised |-> r.raised,
   ops |-> r.ops, reply |-> r.reply]

\* run, lines 136-156: one pair, check_domain returning.
CheckPair ==
  /\ pc = "loop"
  /\ HasNext
  /\ \E net \in Nets :
       LET word   == words[wi]
           tld    == tlds[ti]
           domain == word \o S_dot \o tld
       IN  \E r \in {check_domain(word, tld, net)} :
           /\ r.raised = ""
           /\ call' = CallOf(word, tld, r)
           /\ netOps' = netOps + Len(r.ops)
           /\ status' = r.status
           /\ checked' = checked + 1
           /\ available' = IF Bucket(r.status) = "available"
                           THEN Append(available, domain) ELSE available
           /\ taken' = IF Bucket(r.status) = "taken"
                       THEN Append(taken, domain) ELSE taken
           /\ unknown' = IF Bucket(r.status) = "unknown"
                         THEN Append(unknown, domain) ELSE unknown
           /\ results' = Append(results, <<domain, r.status>>)
  /\ IF ti < Len(tlds)
     THEN wi' = wi /\ ti' = ti + 1
     ELSE wi' = wi + 1 /\ ti' = 1
  /\ UNCHANGED <<argv, jsonFiles, textFiles, pc, exitCode, notice, words,
                 tlds, csvWritten, csvRows>>

\* run, line 137: check_domain raising; nothing in run or __main__ catches
\* it, and the interpreter ends the process with a traceback and status 1.
CheckPairRaises ==
  /\ pc = "loop"
  /\ HasNext
  /\ \E net \in Nets :
       \E r \in {check_domain(words[wi], tlds[ti], net)} :
           /\ r.raised # ""
           /\ call' = CallOf(words[wi], tlds[ti], r)
           /\ netOps' = netOps + Len(r.ops)
  /\ pc' = "raised"
  /\ exitCode' = 1
  /\ UNCHANGED <<argv, jsonFiles, textFiles, notice, words, tlds, wi, ti,
                 available, taken, unknown, checked, status, results,
                 csvWritten, csvRows>>

\* run, lines 158-183: the summary and the CSV file (save_csv is True).
Summary ==
  /\ pc = "loop"
  /\ ~HasNext
  /\ csvWritten' = ShouldSave(TRUE, available, unknown)
  /\ csvRows' = IF ShouldSave(TRUE, available, unknown)
                THEN CsvRows(available, taken, unknown) ELSE <<>>
  /\ pc' = "done"
  /\ exitCode' = 0
  /\ UNCHANGED <<argv, jsonFiles, textFiles, notice, words, tlds, wi, ti,
                 available, taken, unknown, checked, status, call, netOps,
                 results>>

Next ==
  \/ LoadWords
  \/ WordsFileNotFound
  \/ ParseAndNormalize
  \/ PlainFileNotFound
  \/ RunStart
  \/ CheckPair
  \/ CheckPairRaises
  \/ Summary

Spec ==
  Init /\ [][Next]_vars

(* ------------------------------ properties ----------------------------- *)

S_zz ==
  <<"z","z">>
S_unknown_503 ==
  <<"u","n","k","n","o","w","n","(","5","0","3",")">>
S_neoware ==
  <<"n","e","o","w","a","r","e">>
S_neoware_com ==
  <<"n","e","o","w","a","r","e",".","c","o","m">>
S_ab ==
  <<"a","b">>
S_c ==
  <<"c">>

Called ==
  call # NoCall

HasBinding(tld) ==
  tld \in DOMAIN RDAP_SERVERS \/ tld \in DOMAIN WHOIS_SERVERS

\* The closed set of verdicts.
IsVerdict(s) ==
  \/ s \in {S_available, S_taken, S_unknown, S_timeout, S_error, S_no_server}
  \/ \E c \in StatusCodes : s = S_unknown_open \o IntToStr(c) \o S_close

\* The k-th pair of words x tlds in label-major, tld-minor order.
PairWord(k) ==
  words[((k - 1) \div Len(tlds)) + 1]

PairTld(k) ==
  tlds[((k - 1) % Len(tlds)) + 1]

PairDomain(k) ==
  PairWord(k) \o S_dot \o PairTld(k)

\* The domains of the checked pairs whose status is in a set, in order.
DomainsWith(inSet(_)) ==
  LET sel == SelectSeq(results, LAMBDA r : inSet(r[2]))
  IN  [i \in 1..Len(sel) |-> sel[i][1]]

NoDuplicates(seq) ==
  \A i, j \in 1..Len(seq) : seq[i] = seq[j] => i = j

\* C1: for every label, TLD and outcome of the round-trip, check_domain
\* returns a verdict of the closed set {available, taken, unknown(code),
\* timeout, error, no-server} and no exception escapes to its caller.
C1_AlwaysAVerdict ==
  Called => call.raised = "" /\ IsVerdict(call.status)

\* C2: for a TLD with an RDAP binding, status 404 gives available, 200 gives
\* taken, any other status code c gives unknown(c), a timeout gives timeout
\* and any other transport failure (RequestException) gives error.
C2_RdapMapping ==
  (Called /\ call.tld \in DOMAIN RDAP_SERVERS) =>
    LET r == call.reply
        returned(v) == call.raised = "" /\ call.status = v
    IN  /\ r.kind \in {"status", "exc"}
        /\ (r.kind = "status" /\ r.code = 404) => returned(S_available)
        /\ (r.kind = "status" /\ r.code = 200) => returned(S_taken)
        /\ (r.kind = "status" /\ r.code \notin {200, 404}) =>
             returned(S_unknown_open \o IntToStr(r.code) \o S_close)
        /\ (r.kind = "status" /\ r.code = 503) => returned(S_unknown_503)
        /\ (r.kind = "exc" /\ r.exc \in Timeouts) => returned(S_timeout)
        /\ (r.kind = "exc" /\ r.exc \in RequestExceptions \ Timeouts) =>
             returned(S_error)

C2_Witness ==
  /\ call.tld = S_com
  /\ call.reply.kind = "exc"
  /\ call.reply.exc = "ReadTimeout"
  /\ call.status = S_timeout

\* C3: for a TLD with only a WHOIS binding the verdict is decided by the
\* lowercased body: an availability phrase gives available even when a
\* taken-phrase is present too, otherwise a taken-phrase gives taken,
\* otherwise unknown; an exception of the exchange gives error.
C3_WhoisMapping ==
  (Called /\ call.tld \notin DOMAIN RDAP_SERVERS
          /\ call.tld \in DOMAIN WHOIS_SERVERS) =>
    LET r    == call.reply
        text == Lower(Decode(r.body))
        free == \E p \in {P_no_match, P_not_found, P_no_data_found} :
                  Contains(text, p)
        held == \E p \in {P_domain_name, P_registrar, P_registered} :
                  Contains(text, p)
    IN  /\ call.raised = ""
        /\ r.kind \in {"body", "exc"}
        /\ r.kind = "exc" => call.status = S_error
        /\ (r.kind = "body" /\ free) => call.status = S_available
        /\ (r.kind = "body" /\ ~free /\ held) => call.status = S_taken
        /\ (r.kind = "body" /\ ~free /\ ~held) => call.status = S_unknown

C3_Witness ==
  /\ call.tld = S_io
  /\ call.reply.kind = "body"
  /\ call.reply.body = B_both
  /\ call.status = S_available

\* C4: a TLD with an RDAP binding has only its RDAP endpoint contacted, also
\* when the request fails; otherwise a TLD with a WHOIS binding has that
\* server contacted; otherwise the verdict is no-server and nothing is
\* contacted.
C4_ProtocolSelection ==
  Called =>
    LET domain == call.word \o S_dot \o call.tld
    IN  IF call.tld \in DOMAIN RDAP_SERVERS
        THEN /\ Len(call.ops) = 1
             /\ call.ops[1].proto = "rdap"
             /\ call.ops[1].target = RDAP_SERVERS[call.tld] \o domain
        ELSE IF call.tld \in DOMAIN WHOIS_SERVERS
        THEN /\ Len(call.ops) = 1
             /\ call.ops[1].proto = "whois"
             /\ call.ops[1].target = WHOIS_SERVERS[call.tld][1]
             /\ call.ops[1].port = WHOIS_SERVERS[call.tld][2]
             /\ call.ops[1].sent = domain \o S_crlf
        ELSE /\ call.ops = <<>>
             /\ call.raised = ""
             /\ call.status = S_no_server

C4_Witness ==
  /\ call.tld = S_zz
  /\ call.status = S_no_server
  /\ call.ops = <<>>
  /\ checked = 1
  /\ netOps = 0

\* C5: run checks every (word, tld) pair exactly once in label-major,
\* tld-minor order, no per-pair failure aborts it, and it reaches its summary
\* with the checked count equal to len(words) * len(tlds).
C5_RunReachesSummary ==
  /\ pc # "raised"
  /\ pc = "done" =>
       /\ checked = Len(words) * Len(tlds)
       /\ Len(results) = checked
       /\ \A k \in 1..checked : results[k][1] = PairDomain(k)

\* C6, as claimed: the buckets partition the checked pairs, their sizes sum
\* to the checked count, and no domain appears in two buckets or twice in
\* one, for every TLD list the command line can give.
C6_NoDomainTwice ==
  /\ Len(available) + Len(taken) + Len(unknown) = checked
  /\ NoDuplicates(available \o taken \o unknown)

\* C6, amended: every checked pair is appended once to the one bucket of its
\* verdict, in checking order, and the sizes sum to the checked count; no
\* domain appears twice provided no two checked pairs form the same domain.
C6_BucketsPartitionPairs ==
  /\ Len(available) + Len(taken) + Len(unknown) = checked
  /\ Len(results) = checked
  /\ \A k \in 1..checked : results[k][1] = PairDomain(k)
  /\ available = DomainsWith(LAMBDA v : v = S_available)
  /\ taken = DomainsWith(LAMBDA v : v = S_taken)
  /\ unknown = DomainsWith(LAMBDA v : v \notin {S_available, S_taken})
  /\ NoDuplicates([k \in 1..checked |-> PairDomain(k)]) =>
       NoDuplicates(available \o taken \o unknown)

C6_Witness ==
  /\ tlds = <<S_zz, S_com, S_io, S_com>>
  /\ checked = 4
  /\ \E i \in 1..Len(available), j \in 1..Len(unknown) :
       available[i] = unknown[j]

\* C7: at the end of a run the record file is written iff a result is in the
\* available or the unknown bucket; it then holds the header domain,status
\* and one row per checked pair, labelled with its bucket's name.
C7_RecordFile ==
  LET label(v) == IF v = S_available THEN S_available
                  ELSE IF v = S_taken THEN S_taken ELSE S_unknown
      row(k)   == <<results[k][1], label(results[k][2])>>
      count(x, seq) == Cardinality({i \in 1..Len(seq) : seq[i] = x})
  IN  /\ pc # "done" => ~csvWritten /\ csvRows = <<>>
      /\ pc = "done" =>
           /\ csvWritten <=>
                \E k \in 1..checked : results[k][2] # S_taken
           /\ ~csvWritten => csvRows = <<>>
           /\ csvWritten =>
                /\ Len(csvRows) = 1 + checked
                /\ csvRows[1] = <<S_domain, S_status>>
                /\ \A k \in 1..checked :
                     count(row(k), Tail(csvRows))
                       = Cardinality({j \in 1..checked : row(j) = row(k)})

C7_Witness ==
  /\ pc = "done"
  /\ words = <<S_neoware>>
  /\ tlds = <<S_com>>
  /\ Len(available) = 1 /\ taken = <<>> /\ unknown = <<>>
  /\ csvWritten
  /\ csvRows = <<<<S_domain, S_status>>, <<S_neoware_com, S_available>>>>

\* The structured word file of a command line: the value of the last
\* --words= argument, or the default.
StructuredSource ==
  LET is == {i \in 1..Len(argv) : StartsWith(argv[i], F_words)}
  IN  IF is = {} THEN WORDS_FILE
      ELSE AfterEquals(argv[CHOOSE i \in is : \A j \in is : j <= i])

\* The positional plain list of a command line: the last argument that is no
\* option, or None.
PositionalSource ==
  LET is == {i \in 1..Len(argv) : ~StartsWith(argv[i], F_dashes)}
  IN  IF is = {} THEN None
      ELSE argv[CHOOSE i \in is : \A j \in is : j <= i]

\* C8: if the structured word file or the positional plain list does not
\* exist, every step the process takes keeps it before the run with no
\* network operation performed, the step that finds the file missing prints
\* a message and exits with status 1, and no other step is possible there.
C8_MissingSourceExits ==
  [][LET noJson == StructuredSource \notin DOMAIN jsonFiles
         noText == /\ PositionalSource # None
                   /\ PositionalSource \notin DOMAIN textFiles
     IN  (noJson \/ noText) =>
           /\ netOps' = 0
           /\ call' = NoCall
           /\ pc' \in {"args", "exit"}
           /\ noJson => pc' = "exit"
           /\ pc = "args" => pc' = "exit"
           /\ pc' = "exit" => exitCode' = 1 /\ notice' # None]_vars

C8_Witness ==
  /\ pc = "exit"
  /\ exitCode = 1
  /\ StructuredSource \in DOMAIN jsonFiles
  /\ PositionalSource = A_words_txt
  /\ notice = <<"File not found: ", A_words_txt>>
  /\ netOps = 0

\* C9, as claimed: every call of check_domain performs exactly one network
\* operation, so after a run the operations number the pairs checked.
C9_ExactlyOneOperation ==
  /\ Called => Len(call.ops) = 1
  /\ pc = "done" => netOps = checked

\* C9, amended: a call performs one network operation when the TLD has a
\* binding and none when it has not, and never more; after a run that reaches
\* its summary the operations number the checked pairs whose TLD has a
\* binding.
C9_AtMostOneOperation ==
  LET bound(n) == Cardinality({k \in 1..n : HasBinding(PairTld(k))})
  IN  /\ Called =>
           Len(call.ops) = IF HasBinding(call.tld) THEN 1 ELSE 0
      /\ pc \in {"loop", "done"} => netOps = bound(checked)
      /\ pc = "raised" => netOps = bound(checked) + 1

C9_Witness ==
  /\ pc = "done"
  /\ tlds = <<S_zz, S_com, S_io, S_com>>
  /\ checked = 4
  /\ netOps = 3

\* C10: with the arguments words.txt --tlds com,ai,app,io, and words.txt and
\* the structured words file present, the labels are those of words.txt and
\* the TLDs are com, ai, app, io.
C10_UsageAsDocumented ==
  (/\ argv = <<A_words_txt, A_tlds_bare, A_tld_list>>
   /\ WORDS_FILE \in DOMAIN jsonFiles
   /\ A_words_txt \in DOMAIN textFiles
   /\ pc \notin {"start", "args"}) =>
     /\ pc # "exit"
     /\ words = <<S_ab, S_c>>
     /\ tlds = <<S_com, S_ai, S_app, S_io>>
====
